---- MODULE Spec2Model ----
(***************************************************************************)
(* The JSON history backend of xonsh (xonsh/history/json.py): one session  *)
(* (JsonHistory) with its in-memory buffer, its session file, the queue    *)
(* and condition shared by its flusher threads (JsonHistoryFlusher) and    *)
(* its field accessors (JsonCommandField).                                 *)
(*                                                                         *)
(* Threads: the interactive loop ("main") calls append, flush, clear,      *)
(* delete, the field accessors and, at shutdown, flush(at_exit=True);      *)
(* every background flush is a thread of its own.  A step of a thread is   *)
(* one action; the steps of different threads interleave freely.           *)
(***************************************************************************)
EXTENDS Integers, Sequences, FiniteSets, TLC

\* Number of commands the interactive loop hands to append.
MaxCmds == 2
\* JsonHistory(buffersize=...): the buffer length that triggers a flush.
BufferSize == 2
\* A field accessor goes to the file only while the queue is shorter than
\* this (an accessor whose read raised stays in the queue for good).
MaxQueue == 3
\* Number of history files the data directory holds besides the session's.
MaxFiles == 3
\* Largest retention limit ($XONSH_HISTORY_SIZE) a collection is run with.
MaxLimit == 3
\* The clock value past which no other session appends and no pull is made.
MaxNow == 4

VARIABLES
    env,        \* configuration: $HISTCONTROL, $XONSH_STORE_STDOUT, save_cwd
    buffer,     \* JsonHistory.buffer
    hlen,       \* JsonHistory._len
    skipped,    \* JsonHistory._skipped
    file,       \* the session file (self.filename) on disk
    queue,      \* JsonHistory._queue (a deque of flushers and field accessors)
    cond,       \* owner of the lock of JsonHistory._cond (Free when not held)
    fl,         \* the JsonHistoryFlusher objects, by creation order
    nfl,        \* number of flushers created so far
    main,       \* the interactive loop: where it is inside a blocking call
    now,        \* the clock (time.time()), counted in appended commands
    ret,        \* what the last call of the interactive loop returned
    raised,     \* queue entries whose operation ended with an exception
    appended,   \* history: the commands append accepted, as it buffered them
    edited,     \* history: clear() or delete() has been called
    mtime,      \* os.path.getmtime of the session file
    histfile,   \* $XONSH_HISTORY_FILE
    dir,        \* the other history files of the data directory, by session id
    pullTimes,  \* JsonHistory.last_pull_times
    pulled,     \* what the last pull collected, imported and returned
    prompter,   \* hasattr(XSH.shell.shell, "prompter")
    selected,   \* history: the commands of other files the pulls have collected
    gc          \* the JsonHistoryGC thread

vars == <<env, buffer, hlen, skipped, file, queue, cond, fl, nfl, main, now,
          ret, raised, appended, edited, mtime, histfile, dir, pullTimes,
          pulled, prompter, selected, gc>>

\* What the calls and threads of the session's own buffer and file leave alone.
others == <<histfile, dir, pullTimes, pulled, prompter, selected, gc>>

----------------------------------------------------------------------------
(* Values *)

Free == 0
MainT == -1

\* The five JsonCommandField objects of a session, in the order of __init__.
Fields == <<"ts", "inp", "out", "rtn", "cwd">>
FieldNames == {Fields[i] : i \in 1..Len(Fields)}

\* The queue holds objects: flusher n is n, the accessor of Fields[i] is -i.
FieldObj(field) == -(CHOOSE i \in 1..Len(Fields) : Fields[i] = field)

\* Commands the shell hands to append: input text, return code, captured
\* output present or not.
CmdInputs ==
    { [inp |-> "a", rtn |-> 0, out |-> TRUE],
      [inp |-> "a", rtn |-> 1, out |-> FALSE],
      [inp |-> "b", rtn |-> 0, out |-> TRUE] }

\* Patterns handed to delete, with re.match on the one-letter inputs.
Patterns == {"a", "b", "."}
Matches(pat, inp) == pat = "." \/ pat = inp

\* None is <<>>, a value v is <<v>>.
None == <<>>

NoHist == [ok |-> TRUE, hasTs |-> FALSE, tsEnd |-> 0, locked |-> FALSE, cmds |-> <<>>]
NoFlusher == [pc |-> "none", buffer |-> <<>>, atExit |-> FALSE, hist |-> NoHist, cmds |-> <<>>]
\* What a call returned, with what it was called on: delete's pattern and the
\* number of matching records there were, the number of flushes that were
\* still under way when clear or delete was called.
NoRet == [op |-> "none", pat |-> "", count |-> 0, pre |-> 0, pending |-> 0]
Idle == [pc |-> "idle", op |-> 0, field |-> "", key |-> 0, hist |-> NoHist,
         pat |-> "", count |-> 0, pre |-> 0, pending |-> 0]

\* Every flusher takes at least one command with it.
FlusherIds == 1..MaxCmds

\* Paths and session ids: the other history files of the data directory are
\* xonsh-1.json, xonsh-2.json, ...; OwnPath is self.filename, the file of
\* this session; NoPath is $XONSH_HISTORY_FILE unset or empty.
Paths == 1..MaxFiles
OwnPath == 0
NoPath == -1

\* A history file: absent, of zero bytes ("empty"), not valid JSON
\* ("corrupt"), or a document ("json") with locked, ts = [ts0, ts1] (ts1 = 0
\* is None) and cmds, each command with its end timestamp and input.
AbsentFile ==
    [kind |-> "absent", locked |-> FALSE, ts0 |-> 0, ts1 |-> 0, cmds |-> <<>>,
     mtime |-> 0, size |-> 0]
NoDir == [f \in Paths |-> AbsentFile]

\* uptime.boottime()
Boot == 2

NoGC ==
    [pc |-> "none", units |-> "", hsize |-> 0, force |-> FALSE, todo |-> <<>>,
     files |-> <<>>, sizeOver |-> 0, rm |-> <<>>, seen |-> NoDir,
     removed |-> {}, failed |-> {}, warned |-> FALSE]

\* What pull did last: the items _xhj_pull_items returned and how many of
\* them came from the session's own file, the lines handed to the prompter,
\* the count returned, the cursors before the call and the time of the call.
NoPull == [op |-> "none", src |-> None, items |-> <<>>, fromOwn |-> 0,
           lines |-> <<>>, cnt |-> 0, before |-> <<>>, at |-> 0]

----------------------------------------------------------------------------
(* Pure functions of the source *)

\* cmd.get(field, default) with default None.
FieldGet(cmd, field) ==
    CASE field = "inp" -> <<cmd.inp>>
      [] field = "ts"  -> <<cmd.ts>>
      [] field = "rtn" -> <<cmd.rtn>>
      [] field = "out" -> IF cmd.out THEN <<"out">> ELSE None
      [] field = "cwd" -> IF cmd.cwd THEN <<"cwd">> ELSE None

\* The loop of JsonHistoryFlusher.dump over self.buffer: the commands kept.
RECURSIVE DumpFilter(_, _, _)
DumpFilter(buf, lastInp, opts) ==
    IF buf = <<>> THEN <<>>
    ELSE LET cmd == Head(buf) IN
         IF "ignoredups" \in opts /\ <<cmd.inp>> = lastInp
         THEN DumpFilter(Tail(buf), lastInp, opts)
         ELSE IF "ignoreerr" \in opts /\ cmd.rtn # 0
         THEN DumpFilter(Tail(buf), lastInp, opts)
         ELSE <<cmd>> \o DumpFilter(Tail(buf), <<cmd.inp>>, opts)

\* [cmd.pop("out") for cmd in hist["cmds"][load_hist_len:] if "out" in cmd]
StripOut(cmds, storeStdout) ==
    IF storeStdout THEN cmds
    ELSE [i \in 1..Len(cmds) |-> [cmds[i] EXCEPT !.out = FALSE]]

\* NewHist with hist["cmds"].extend(cmds) putting the new commands first.
NewHistPrepends(hist, cmds, atExit, time, storeStdout) ==
    [hist EXCEPT !.cmds = StripOut(cmds, storeStdout) \o hist.cmds,
                 !.tsEnd = IF atExit /\ hist.hasTs THEN time ELSE @,
                 !.locked = IF atExit THEN FALSE ELSE @]

\* The document dump writes back: the loaded one with the kept commands
\* appended, and finalized when at_exit.
NewHist(hist, cmds, atExit, time, storeStdout) ==
    [hist EXCEPT !.cmds = hist.cmds \o StripOut(cmds, storeStdout),
                 !.tsEnd = IF atExit /\ hist.hasTs THEN time ELSE @,
                 !.locked = IF atExit THEN FALSE ELSE @]

RemoveAt(s, i) == SubSeq(s, 1, i - 1) \o SubSeq(s, i + 1, Len(s))

\* for i, cmd in enumerate(lst): if pattern.match(cmd["inp"]): del lst[i]
\* (the iterator's index goes on by one after a deletion too).
RECURSIVE PyDelLoop(_, _, _)
PyDelLoop(lst, i, pat) ==
    IF i > Len(lst) THEN lst
    ELSE IF Matches(pat, lst[i].inp)
         THEN PyDelLoop(RemoveAt(lst, i), i + 1, pat)
         ELSE PyDelLoop(lst, i + 1, pat)

NumMatching(lst, pat) == Cardinality({i \in 1..Len(lst) : Matches(pat, lst[i].inp)})

\* JsonHistory.__len__
HistLen == hlen - skipped

----------------------------------------------------------------------------
(* Retention policies: files is a sequence of <<timestamp, number of
   commands, path, size in bytes>>, oldest first *)

Min(a, b) == IF a < b THEN a ELSE b
Max(a, b) == IF a > b THEN a ELSE b

\* s[:stop] of Python, for any integer stop (s[:-0] is s[:0], the empty list).
SliceTo(s, stop) ==
    IF stop >= 0 THEN SubSeq(s, 1, Min(stop, Len(s)))
    ELSE SubSeq(s, 1, Max(Len(s) + stop, 0))

\* The sum of component m over the tuples of s.
RECURSIVE SumOf(_, _)
SumOf(s, m) == IF s = <<>> THEN 0 ELSE Head(s)[m] + SumOf(Tail(s), m)

\* for ... in reversed(files): if total + metric > hsize: break; n += 1
\* from position k down, total accumulated so far: the n reached.
RECURSIVE CountKept(_, _, _, _, _)
CountKept(files, k, total, hsize, m) ==
    IF k = 0 THEN 0
    ELSE IF total + files[k][m] > hsize THEN 0
    ELSE 1 + CountKept(files, k - 1, total + files[k][m], hsize, m)

\* The accumulation with files[:n] written for files[:-n].
AccumulateHead(hsize, files, m) ==
    LET n == CountKept(files, Len(files), 0, hsize, m)
        removed == SliceTo(files, n)
    IN [over |-> SumOf(removed, m), rm |-> removed]

\* The accumulation with files[:len(files) - n] written for files[:-n].
AccumulateLen(hsize, files, m) ==
    LET n == CountKept(files, Len(files), 0, hsize, m)
        removed == SliceTo(files, Len(files) - n)
    IN [over |-> SumOf(removed, m), rm |-> removed]

\* _xhj_gc_commands_to_rmfiles (m = 2) and _xhj_gc_bytes_to_rmfiles (m = 4)
AccumulateToRmfiles(hsize, files, m) ==
    LET n == CountKept(files, Len(files), 0, hsize, m)
        removed == SliceTo(files, -n)
    IN [over |-> SumOf(removed, m), rm |-> removed]

xhj_gc_commands_to_rmfiles(hsize, files) == AccumulateToRmfiles(hsize, files, 2)

xhj_gc_bytes_to_rmfiles(hsize, files) == AccumulateToRmfiles(hsize, files, 4)

\* The file-count policy with files[hsize:] written for files[:-hsize].
xhj_gc_files_from(hsize, files) ==
    LET rmfiles == IF Len(files) > hsize
                   THEN SubSeq(files, hsize + 1, Len(files)) ELSE <<>>
    IN [over |-> Len(rmfiles), rm |-> rmfiles]

\* _xhj_gc_files_to_rmfiles
xhj_gc_files_to_rmfiles(hsize, files) ==
    LET rmfiles == IF Len(files) > hsize THEN SliceTo(files, -hsize) ELSE <<>>
    IN [over |-> Len(rmfiles), rm |-> rmfiles]

\* for ts, ... in files: if (now - ts) < hsize: break; n += 1
RECURSIVE CountOld(_, _, _, _)
CountOld(files, k, hsize, time) ==
    IF k > Len(files) THEN 0
    ELSE IF (time - files[k][1]) < hsize THEN 0
    ELSE 1 + CountOld(files, k + 1, hsize, time)

\* _xhj_gc_seconds_to_rmfiles
xhj_gc_seconds_to_rmfiles(hsize, files, time) ==
    LET n == CountOld(files, 1, hsize, time)
        rmfiles == SliceTo(files, n)
    IN [over |-> IF n > 0 THEN time - hsize - rmfiles[1][1] ELSE 0,
        rm |-> rmfiles]

Units == {"commands", "files", "s", "b"}

\* self.gc_units_to_rmfiles.get(units)(hsize, files)
RmFiles(units, hsize, files, time) ==
    CASE units = "commands" -> xhj_gc_commands_to_rmfiles(hsize, files)
      [] units = "files"    -> xhj_gc_files_to_rmfiles(hsize, files)
      [] units = "s"        -> xhj_gc_seconds_to_rmfiles(hsize, files, time)
      [] units = "b"        -> xhj_gc_bytes_to_rmfiles(hsize, files)

\* Order of Python tuples of integers of the same length.
RECURSIVE TupleLess(_, _)
TupleLess(a, b) ==
    /\ a # <<>>
    /\ \/ Head(a) < Head(b)
       \/ Head(a) = Head(b) /\ TupleLess(Tail(a), Tail(b))

\* files.sort() on a list whose tuples are the set S (the paths differ).
RECURSIVE SortTuples(_)
SortTuples(S) ==
    IF S = {} THEN <<>>
    ELSE LET first == CHOOSE a \in S : \A b \in S \ {a} : TupleLess(a, b)
         IN <<first>> \o SortTuples(S \ {first})

----------------------------------------------------------------------------
(* Initial state: JsonHistory.__init__ on a file that does not exist yet *)

Configs ==
    [opts : SUBSET {"ignoredups", "ignoreerr"}, storeStdout : BOOLEAN,
     saveCwd : BOOLEAN, metaTs : BOOLEAN]

InitSession(cfgs, time) ==
    /\ env \in cfgs
    /\ buffer = <<>>
    /\ hlen = 0
    /\ skipped = 0
    /\ file = [ok |-> TRUE, hasTs |-> env.metaTs, tsEnd |-> 0,
               locked |-> env.metaTs, cmds |-> <<>>]
    /\ queue = <<>>
    /\ cond = Free
    /\ fl = [n \in FlusherIds |-> NoFlusher]
    /\ nfl = 0
    /\ main = Idle
    /\ now = time
    /\ ret = NoRet
    /\ raised = {}
    /\ appended = <<>>
    /\ edited = FALSE
    /\ mtime = time
    /\ pullTimes = [k \in {None} |-> time]
    /\ pulled = NoPull
    /\ selected = [once |-> {}, again |-> {}]
    /\ gc = NoGC

\* A session whose file is the only history file, $XONSH_HISTORY_FILE unset.
InitWith(cfgs) ==
    /\ InitSession(cfgs, 1)
    /\ histfile = NoPath
    /\ prompter = TRUE
    /\ dir = NoDir

\* The configuration xonsh starts a session with: $HISTCONTROL empty,
\* $XONSH_STORE_STDOUT false, $XONSH_HISTORY_SAVE_CWD true, the session's ts
\* and locked passed as metadata.
DefaultConfig ==
    [opts |-> {}, storeStdout |-> FALSE, saveCwd |-> TRUE, metaTs |-> TRUE]

Init == InitWith({DefaultConfig})

----------------------------------------------------------------------------
(* The interactive loop *)

MainIs(pc) == main.pc = pc

\* JsonHistory.flush(at_exit) called with self.buffer = buf: nothing when the
\* buffer is empty; otherwise a JsonHistoryFlusher is constructed on a
\* snapshot of the buffer, which enqueues it and either starts its thread or,
\* at exit, dumps at once in the caller's thread; flush empties the buffer
\* when the constructor has returned.
FlushCall(buf, atExit) ==
    IF Len(buf) = 0
    THEN /\ buffer' = buf
         /\ main' = IF atExit THEN [Idle EXCEPT !.pc = "exited"] ELSE Idle
         /\ UNCHANGED <<fl, queue, nfl>>
    ELSE LET n == nfl + 1 IN
         /\ fl' = [fl EXCEPT ![n] =
                      [pc |-> IF atExit THEN "dump" ELSE "start", buffer |-> buf,
                       atExit |-> atExit, hist |-> NoHist, cmds |-> <<>>]]
         /\ queue' = Append(queue, n)
         /\ nfl' = n
         /\ buffer' = IF atExit THEN buf ELSE <<>>
         /\ main' = IF atExit THEN [Idle EXCEPT !.pc = "ae", !.op = n] ELSE Idle

\* JsonHistory.append(cmd).  ignored: history is not remembered, or the
\* command is ignored, or it is skipped by ignorespace.
AppendCmd(c, ignored) ==
    /\ MainIs("idle")
    /\ Len(appended) < MaxCmds
    /\ ret' = NoRet
    /\ IF ignored
       THEN UNCHANGED <<env, buffer, hlen, skipped, file, queue, cond, fl, nfl,
                        main, now, raised, appended, edited>>
       ELSE LET cmd == [ts |-> now, inp |-> c.inp, rtn |-> c.rtn, out |-> c.out,
                        cwd |-> env.saveCwd]
                buf == Append(buffer, cmd)
            IN /\ hlen' = hlen + 1
               /\ now' = now + 1
               /\ appended' = Append(appended, cmd)
               /\ IF Len(buf) >= BufferSize
                  THEN FlushCall(buf, FALSE)
                  ELSE /\ buffer' = buf
                       /\ UNCHANGED <<fl, queue, nfl, main>>
               /\ UNCHANGED <<env, skipped, file, cond, raised, edited>>
    /\ UNCHANGED mtime
    /\ UNCHANGED others

\* JsonHistory.flush()
Flush ==
    /\ MainIs("idle")
    /\ FlushCall(buffer, FALSE)
    /\ ret' = NoRet
    /\ UNCHANGED <<env, hlen, skipped, file, cond, now, raised, appended, edited>>
    /\ UNCHANGED mtime
    /\ UNCHANGED others

\* JsonHistory.flush(at_exit=True), the shutdown flush: the call itself.
FlushAtExit ==
    /\ MainIs("idle")
    /\ FlushCall(buffer, TRUE)
    /\ ret' = NoRet
    /\ UNCHANGED <<env, hlen, skipped, file, cond, now, raised, appended, edited>>
    /\ UNCHANGED mtime
    /\ UNCHANGED others

\* JsonHistory.clear()
Clear ==
    /\ MainIs("idle")
    /\ hlen' = 0
    /\ skipped' = 0
    /\ FlushCall(<<>>, FALSE)
    /\ ret' = [NoRet EXCEPT !.op = "clear",
                  !.pending = Cardinality({n \in 1..nfl : fl[n].pc # "done"})]
    /\ edited' = TRUE
    /\ UNCHANGED <<env, file, cond, now, raised, appended>>
    /\ UNCHANGED mtime
    /\ UNCHANGED others

\* JsonHistory.delete(pattern), up to the load of the session file: the
\* buffer is filtered, then the file is loaded and its commands filtered; a
\* file that does not load is skipped.
DeleteBegin(pat) ==
    /\ MainIs("idle")
    /\ LET buf == PyDelLoop(buffer, 1, pat)
           cmds == PyDelLoop(file.cmds, 1, pat)
           inBuf == Len(buffer) - Len(buf)
           pre == NumMatching(buffer, pat)
                  + (IF file.ok THEN NumMatching(file.cmds, pat) ELSE 0)
           pending == Cardinality({n \in 1..nfl : fl[n].pc # "done"})
       IN /\ buffer' = buf
          /\ IF file.ok
             THEN /\ main' = [Idle EXCEPT !.pc = "del_write", !.pat = pat,
                                 !.hist = [file EXCEPT !.cmds = cmds],
                                 !.count = inBuf + Len(file.cmds) - Len(cmds),
                                 !.pre = pre, !.pending = pending]
                  /\ ret' = NoRet
             ELSE /\ main' = Idle
                  /\ ret' = [NoRet EXCEPT !.op = "delete", !.pat = pat,
                                !.count = inBuf, !.pre = pre,
                                !.pending = pending]
    /\ edited' = TRUE
    /\ UNCHANGED <<env, hlen, skipped, file, queue, cond, fl, nfl, now, raised,
                   appended>>
    /\ UNCHANGED mtime
    /\ UNCHANGED others

\* JsonHistory.delete: the filtered document is written back, and the count
\* returned.
DeleteWrite ==
    /\ MainIs("del_write")
    /\ file' = main.hist
    /\ ret' = [NoRet EXCEPT !.op = "delete", !.pat = main.pat,
                  !.count = main.count, !.pre = main.pre,
                  !.pending = main.pending]
    /\ main' = Idle
    /\ UNCHANGED <<env, buffer, hlen, skipped, queue, cond, fl, nfl, now, raised,
                   appended, edited>>
    /\ mtime' = now
    /\ UNCHANGED others

\* key = size + key if key < 0 else key
NormKey(key) == IF key < 0 THEN HistLen + key ELSE key

\* size - bufsize <= key: the key is in the buffer.
InBuffer(k) == HistLen - Len(buffer) <= k

\* self.hist.buffer[key + bufsize - size].get(self.field, self.default)
BufferValue(field, k) == FieldGet(buffer[k + Len(buffer) - HistLen + 1], field)

\* lj["cmds"][key].get(self.field, self.default)
FileValue(field, k) == FieldGet(file.cmds[k + 1], field)

\* JsonCommandField.__getitem__(key) for an int key, up to the enqueue: an
\* index in the last len(buffer) positions is read from the buffer
\* (BufferValue is returned); any other one enqueues the accessor and goes to
\* the file.
Read(field, key) ==
    /\ MainIs("idle")
    /\ HistLen > 0
    /\ key \in (-HistLen)..(HistLen - 1)
    /\ LET k == NormKey(key)
       IN IF InBuffer(k)
          THEN UNCHANGED <<queue, main>>
          ELSE /\ Len(queue) < MaxQueue
               /\ queue' = Append(queue, FieldObj(field))
               /\ main' = [Idle EXCEPT !.pc = "rd_lock", !.field = field, !.key = k]
    /\ ret' = NoRet
    /\ UNCHANGED <<env, buffer, hlen, skipped, file, cond, fl, nfl, now, raised,
                   appended, edited>>
    /\ UNCHANGED mtime
    /\ UNCHANGED others

FileReadable(k) == file.ok /\ k < Len(file.cmds)

\* with self.hist._cond: self.hist._cond.wait_for(self.i_am_at_the_front).
\* The lock is taken when free; an accessor that is not at the front waits
\* (the lock released) for a notify.
ReadAcquire ==
    /\ MainIs("rd_lock")
    /\ cond = Free
    /\ IF Head(queue) = FieldObj(main.field)
       THEN /\ main' = [main EXCEPT !.pc = "rd_io"]
            /\ cond' = MainT
       ELSE /\ main' = [main EXCEPT !.pc = "rd_wait"]
            /\ cond' = Free
    /\ UNCHANGED <<env, buffer, hlen, skipped, file, queue, fl, nfl, now, ret,
                   raised, appended, edited>>
    /\ UNCHANGED mtime
    /\ UNCHANGED others

\* lj["cmds"][key].get(field, default); queue.popleft(): FileValue is
\* returned.  A file that does not parse or an index the file does not have
\* raises: the with block is left, the lock released, and popleft is not
\* reached.
ReadFile ==
    /\ MainIs("rd_io")
    /\ cond' = Free
    /\ main' = Idle
    /\ IF FileReadable(main.key)
       THEN /\ queue' = Tail(queue)
            /\ UNCHANGED raised
       ELSE /\ raised' = raised \cup {FieldObj(main.field)}
            /\ UNCHANGED queue
    /\ UNCHANGED <<env, buffer, hlen, skipped, file, fl, nfl, now, ret, appended,
                   edited>>
    /\ UNCHANGED mtime
    /\ UNCHANGED others

----------------------------------------------------------------------------
(* The flushers: JsonHistoryFlusher.run and dump *)

FlPc(n) == fl[n].pc

\* run: with self.cond: self.cond.wait_for(self.i_am_at_the_front).  The
\* thread takes the lock when it is free and tests once whether it is at the
\* front; if not it waits, the lock released, for a notify.
FlusherAcquire(n) ==
    /\ FlPc(n) = "start"
    /\ cond = Free
    /\ IF queue # <<>> /\ Head(queue) = n
       THEN /\ fl' = [fl EXCEPT ![n].pc = "dump"]
            /\ cond' = n
       ELSE /\ fl' = [fl EXCEPT ![n].pc = IF queue = <<>> THEN "raised" ELSE "wait"]
            /\ cond' = Free
    /\ UNCHANGED <<env, buffer, hlen, skipped, file, queue, nfl, main, now, ret,
                   raised, appended, edited>>
    /\ UNCHANGED mtime
    /\ UNCHANGED others

\* An exception leaves dump: a thread's with block releases the lock, the
\* shutdown flush raises into its caller; popleft is not reached.
DumpRaises(n) ==
    /\ fl' = [fl EXCEPT ![n] = [NoFlusher EXCEPT !.pc = "raised", !.atExit = fl[n].atExit]]
    /\ raised' = raised \cup {n}
    /\ IF fl[n].atExit
       THEN /\ main' = [Idle EXCEPT !.pc = "aborted"]
            /\ UNCHANGED cond
       ELSE /\ cond' = Free
            /\ UNCHANGED main

\* dump, first part: the buffer is filtered (every skipped command is
\* counted in _skipped) and the file is loaded.
DumpLoad(n) ==
    /\ FlPc(n) = "dump"
    /\ LET kept == DumpFilter(fl[n].buffer, None, env.opts) IN
       /\ skipped' = skipped + (Len(fl[n].buffer) - Len(kept))
       /\ IF file.ok
          THEN /\ fl' = [fl EXCEPT ![n].pc = "loaded", ![n].hist = file,
                                   ![n].cmds = kept]
               /\ UNCHANGED <<cond, main, raised>>
          ELSE DumpRaises(n)
    /\ UNCHANGED <<env, buffer, hlen, file, queue, nfl, now, ret, appended, edited>>
    /\ UNCHANGED mtime
    /\ UNCHANGED others

\* dump, second part: the document is written back.
DumpWrite(n) ==
    /\ FlPc(n) = "loaded"
    /\ file' = NewHist(fl[n].hist, fl[n].cmds, fl[n].atExit, now, env.storeStdout)
    /\ fl' = [fl EXCEPT ![n].pc = "written", ![n].hist = NoHist, ![n].cmds = <<>>,
                        ![n].buffer = <<>>]
    /\ UNCHANGED <<env, buffer, hlen, skipped, queue, cond, nfl, main, now, ret,
                   raised, appended, edited>>
    /\ mtime' = now
    /\ UNCHANGED others

\* queue.popleft(), after dump.  A thread then leaves its with block; the
\* shutdown flush returns to flush, which empties the buffer and returns.
FlusherPop(n) ==
    /\ FlPc(n) = "written"
    /\ queue' = Tail(queue)
    /\ fl' = [fl EXCEPT ![n].pc = "done"]
    /\ IF fl[n].atExit
       THEN /\ buffer' = <<>>
            /\ main' = [Idle EXCEPT !.pc = "exited"]
            /\ UNCHANGED cond
       ELSE /\ cond' = Free
            /\ UNCHANGED <<buffer, main>>
    /\ UNCHANGED <<env, hlen, skipped, file, nfl, now, ret, raised, appended, edited>>
    /\ UNCHANGED mtime
    /\ UNCHANGED others

----------------------------------------------------------------------------
(* Garbage collection: JsonHistoryGC.run and JsonHistoryGC.files *)

\* A command of another session's file.
Cmd(t, inp) == [ts |-> t, inp |-> inp]

\* A document with n commands that ended at t.
JsonFile(locked, ts0, ts1, n) ==
    [kind |-> "json", locked |-> locked, ts0 |-> ts0, ts1 |-> ts1,
     cmds |-> [i \in 1..n |-> Cmd(IF ts1 = 0 THEN ts0 ELSE ts1, "a")],
     mtime |-> IF ts1 = 0 THEN ts0 ELSE ts1, size |-> n + 1]

\* The history files a collection finds: of zero bytes, not valid JSON,
\* closed by a shutdown flush, left locked by a session that died before the
\* last boot, or locked by a live session (started at or after the boot).
GcFileKinds ==
    { [AbsentFile EXCEPT !.kind = "empty", !.mtime = 2],
      [AbsentFile EXCEPT !.kind = "corrupt", !.mtime = 2, !.size = 1] }
    \cup { JsonFile(FALSE, 1, t, n) : t \in {1, 3}, n \in {1, 2} }
    \cup { JsonFile(TRUE, 1, 0, n) : n \in {1, 2} }
    \cup { JsonFile(TRUE, Boot, 0, 2), JsonFile(TRUE, Boot + 1, 0, 1) }

\* The time a collection of these files runs at.
GcClock == 4

InitGC ==
    /\ InitSession({DefaultConfig}, GcClock)
    /\ histfile = NoPath
    /\ prompter = TRUE
    /\ dir \in [Paths -> GcFileKinds]

session == <<env, buffer, hlen, skipped, file, queue, cond, fl, nfl, main,
             ret, raised, appended, edited, mtime>>

\* JsonHistoryGC(size=(hsize, units), force=force): the thread starts, and
\* run resolves the limit; files() lists the directory, unsorted.
RunGC(units, hsize, force) ==
    /\ gc.pc = "none"
    /\ gc' = [NoGC EXCEPT !.pc = "files", !.units = units, !.hsize = hsize,
                          !.force = force,
                          !.todo = SortTuples({<<f>> : f \in Paths})]
    /\ UNCHANGED <<session, now, histfile, dir, pullTimes, pulled, prompter,
                   selected>>

\* The tuple files() records for a document.
FileTuple(f, d) ==
    <<IF d.ts1 # 0 THEN d.ts1 ELSE d.ts0, Len(d.cmds), f, d.size>>

\* The rewrite with hist["locked"] = False left out.
Rewritten(d, time) == [d EXCEPT !.mtime = time]

\* hist["locked"] = False; ljdump(hist, fp, sort_keys=True)
Unlocked(d, time) == [d EXCEPT !.locked = FALSE, !.mtime = time]

\* The test with ts[0] <= boot.
IsStaleOrAtBoot(d) == d.kind = "json" /\ d.locked /\ d.ts0 <= Boot

\* if lj.get("locked", False) and lj["ts"][0] < boot
IsStale(d) == d.kind = "json" /\ d.locked /\ d.ts0 < Boot

\* files(only_unlocked=True), one file of the listing: a file of zero bytes
\* is recorded with its mtime; a file that is gone or does not parse is
\* skipped; a locked document whose start is before the boot is rewritten
\* unlocked; a document still locked is skipped; any other is recorded.
GcFilesStep ==
    /\ gc.pc = "files"
    /\ gc.todo # <<>>
    /\ LET f == Head(gc.todo)[1]
           d == dir[f]
           lj == IF IsStale(d) THEN Unlocked(d, now) ELSE d
           tuples ==
               CASE d.kind = "empty" -> << <<d.mtime, 0, f, 0>> >>
                 [] d.kind = "json" /\ ~lj.locked -> << FileTuple(f, lj) >>
                 [] OTHER -> <<>>
       IN /\ dir' = [dir EXCEPT ![f] = lj]
          /\ gc' = [gc EXCEPT !.todo = Tail(gc.todo),
                              !.files = gc.files \o tuples,
                              !.seen[f] = d]
    /\ UNCHANGED <<session, now, histfile, pullTimes, pulled, prompter,
                   selected>>

\* The guard with size_over <= hsize.
AllowedAtLimit(force, sizeOver, hsize) == force \/ sizeOver <= hsize

\* if self.force_gc or size_over < hsize
Allowed(force, sizeOver, hsize) == force \/ sizeOver < hsize

\* files.sort(); size_over, rm_files = rmfiles_fn(hsize, files); then the
\* guard: the files are removed, or a warning is printed and none is.
GcPolicy ==
    /\ gc.pc = "files"
    /\ gc.todo = <<>>
    /\ LET files == SortTuples({gc.files[i] : i \in 1..Len(gc.files)})
           r == RmFiles(gc.units, gc.hsize, files, now)
           go == Allowed(gc.force, r.over, gc.hsize)
       IN gc' = [gc EXCEPT !.files = files, !.sizeOver = r.over, !.rm = r.rm,
                           !.todo = IF go THEN r.rm ELSE <<>>,
                           !.warned = ~go,
                           !.pc = IF go /\ r.rm # <<>> THEN "remove" ELSE "done"]
    /\ UNCHANGED <<session, now, histfile, dir, pullTimes, pulled, prompter,
                   selected>>

\* for _, _, f, _ in rm_files: try: os.remove(f) except OSError: pass
GcRemove(ok) ==
    /\ gc.pc = "remove"
    /\ LET f == Head(gc.todo)[3]
           done == ok /\ dir[f].kind # "absent"
       IN /\ dir' = IF done THEN [dir EXCEPT ![f] = AbsentFile] ELSE dir
          /\ gc' = [gc EXCEPT !.todo = Tail(gc.todo),
                              !.removed = IF done THEN @ \cup {f} ELSE @,
                              !.failed = IF done THEN @ ELSE @ \cup {f},
                              !.pc = IF Tail(gc.todo) = <<>> THEN "done" ELSE @]
    /\ UNCHANGED <<session, now, histfile, pullTimes, pulled, prompter,
                   selected>>

NextGC ==
    \/ \E units \in Units, hsize \in 0..MaxLimit, force \in BOOLEAN :
          RunGC(units, hsize, force)
    \/ GcFilesStep
    \/ GcPolicy
    \/ \E ok \in BOOLEAN : GcRemove(ok)

SpecGC == InitGC /\ [][NextGC]_vars

----------------------------------------------------------------------------
(* Pull: _xhj_pull_items and JsonHistory.pull *)

\* Inputs of the commands of other sessions; "b " is b with trailing space.
OtherInputs == {"a", "b "}

\* item["inp"].rstrip()
Rstrip(inp) == IF inp = "b " THEN "b" ELSE inp

\* The cursor test with >= written for >.
PullCursorPasses(t, times, sid) ==
    t >= (IF <<sid>> \in DOMAIN times THEN times[<<sid>>] ELSE times[None])

\* The cursor test against last_full_pull_time alone.
AfterFullPull(t, times, sid) == t > times[None]

\* item["ts"][1] > pull_times.get(sessionid, last_full_pull_time)
AfterCursor(t, times, sid) ==
    t > (IF <<sid>> \in DOMAIN times THEN times[<<sid>>] ELSE times[None])

\* for i in range(len(cmds) - 1, -1, -1): the items appended from position
\* i down, until the first command that is not after the cursor.
RECURSIVE TrailingRun(_, _, _, _)
TrailingRun(cmds, i, times, sid) ==
    IF i = 0 THEN <<>>
    ELSE IF AfterCursor(cmds[i].ts, times, sid)
         THEN <<cmds[i]>> \o TrailingRun(cmds, i - 1, times, sid)
         ELSE <<>>

\* items.sort(key=lambda i: i["ts"][1]), a stable sort.
RECURSIVE SortByTs(_)
SortByTs(items) ==
    IF items = <<>> THEN <<>>
    ELSE LET n == Len(items)
             x == items[n]
             t == SortByTs(SubSeq(items, 1, n - 1))
             k == Cardinality({i \in 1..Len(t) : t[i].ts <= x.ts})
         IN SubSeq(t, 1, k) \o <<x>> \o SubSeq(t, k + 1, Len(t))

\* The commands of the session's own file as pull reads them.
OwnCmds == [i \in 1..Len(file.cmds) |-> Cmd(file.cmds[i].ts, file.cmds[i].inp)]

\* The document at a path: whether LazyJSON opens it, and its commands.
Readable(path) == IF path = OwnPath THEN file.ok ELSE dir[path].kind = "json"
CmdsAt(path) == IF path = OwnPath THEN OwnCmds ELSE dir[path].cmds
MtimeAt(path) == IF path = OwnPath THEN mtime ELSE dir[path].mtime

\* _xhj_get_history_files(sort=True, modified_since=since): the files of the
\* data directory modified after since, oldest first, and
\* $XONSH_HISTORY_FILE put in front when it is set and not among them.
HistoryFiles(since) ==
    LET listed == {OwnPath} \cup {f \in Paths : dir[f].kind # "absent"}
        recent == {f \in listed : MtimeAt(f) > since}
        sorted == SortTuples({<<MtimeAt(f), f>> : f \in recent})
        files == [i \in 1..Len(sorted) |-> sorted[i][2]]
    IN IF histfile # NoPath /\ histfile \notin recent
       THEN <<histfile>> \o files ELSE files

\* src_paths of _xhj_pull_items
SrcPaths(times, src) ==
    IF src # None THEN <<src[1]>> ELSE HistoryFiles(times[None])

\* The path is skipped by the loop: it is the current session's path, or it
\* does not open as JSON, or it holds no command.
Skipped(path) ==
    \/ path = histfile
    \/ ~Readable(path)
    \/ Len(CmdsAt(path)) = 0

\* The loop over src_paths: the items collected, before the sort.
RECURSIVE Collect(_, _)
Collect(paths, times) ==
    IF paths = <<>> THEN <<>>
    ELSE LET path == Head(paths)
             cmds == CmdsAt(path)
         IN (IF Skipped(path) THEN <<>>
             ELSE TrailingRun(cmds, Len(cmds), times, path))
            \o Collect(Tail(paths), times)

\* _xhj_pull_items(pull_times, src_sessionid)
xhj_pull_items(times, src) == SortByTs(Collect(SrcPaths(times, src), times))

\* The loop of pull: a line is handed to the prompter unless it equals the
\* line before it.
RECURSIVE Lines(_, _)
Lines(items, prev) ==
    IF items = <<>> THEN <<>>
    ELSE LET line == Rstrip(Head(items).inp)
         IN (IF <<line>> # prev THEN <<line>> ELSE <<>>)
            \o Lines(Tail(items), <<line>>)

\* The positions <<f, j>> of the commands the loop collects from the files
\* of other sessions: the last commands of each file read, as many as its
\* trailing run has.
Positions(paths, times) ==
    UNION { { <<f, j>> : j \in {i \in 1..Len(dir[f].cmds) :
                  i > Len(dir[f].cmds)
                        - Len(TrailingRun(dir[f].cmds, Len(dir[f].cmds), times, f))} }
            : f \in {g \in Paths : g \in {paths[i] : i \in 1..Len(paths)}
                                    /\ ~Skipped(g)} }

\* The cursor update with the reset of a full pull left out.
KeepsPullTimes(times, src, time) ==
    [k \in DOMAIN times \cup {src} |-> IF k = src THEN time ELSE times[k]]

\* if src_sessionid is None: self.last_pull_times = {}
\* self.last_pull_times[src_sessionid] = time.time()
NewPullTimes(times, src, time) ==
    IF src = None THEN [k \in {None} |-> time]
    ELSE [k \in DOMAIN times \cup {src} |-> IF k = src THEN time ELSE times[k]]

PullSources == {None} \cup {<<f>> : f \in Paths}

\* JsonHistory.pull(src_sessionid=src).  Without a prompter, pull prints
\* that the shell is not supported and returns 0.  open() of a source file
\* that does not exist raises.
Pull(src) ==
    /\ MainIs("idle")
    /\ now <= MaxNow
    /\ LET missing == src # None /\ src[1] # histfile
                      /\ dir[src[1]].kind = "absent"
           paths == SrcPaths(pullTimes, src)
           items == xhj_pull_items(pullTimes, src)
           lines == Lines(items, None)
           own == IF OwnPath \in {paths[i] : i \in 1..Len(paths)}
                     /\ ~Skipped(OwnPath)
                  THEN Len(TrailingRun(OwnCmds, Len(OwnCmds), pullTimes, OwnPath))
                  ELSE 0
           call == [NoPull EXCEPT !.src = src, !.before = pullTimes, !.at = now]
       IN IF ~prompter
          THEN /\ pulled' = [call EXCEPT !.op = "unsupported"]
               /\ UNCHANGED <<pullTimes, selected>>
          ELSE IF missing
          THEN /\ pulled' = [call EXCEPT !.op = "raised"]
               /\ UNCHANGED <<pullTimes, selected>>
          ELSE /\ pulled' = [call EXCEPT !.op = "pull", !.items = items,
                                         !.fromOwn = own, !.lines = lines,
                                         !.cnt = Len(lines)]
               /\ pullTimes' = NewPullTimes(pullTimes, src, now)
               /\ selected' =
                     [once |-> selected.once \cup Positions(paths, pullTimes),
                      again |-> selected.again
                                  \cup (selected.once \cap Positions(paths, pullTimes))]
    /\ now' = now + 1
    /\ UNCHANGED <<session, histfile, dir, prompter, gc>>

\* The sessions that run beside this one.
Writers == {f \in Paths : f <= 2}

\* Another session flushes a command to its file xonsh-f.json (which its
\* first flush finds created, locked, by its __init__): the command ended
\* now, or one tick earlier when late.
OtherAppend(f, inp, late) ==
    /\ now <= MaxNow
    /\ LET d == IF dir[f].kind = "absent" THEN JsonFile(TRUE, now, 0, 0)
                ELSE dir[f]
           t == IF late /\ now > 1 THEN now - 1 ELSE now
       IN dir' = [dir EXCEPT ![f] = [d EXCEPT !.cmds = Append(d.cmds, Cmd(t, inp)),
                                              !.mtime = now,
                                              !.size = d.size + 1]]
    /\ now' = now + 1
    /\ UNCHANGED <<session, histfile, pullTimes, pulled, prompter, selected, gc>>

\* A session with other sessions beside it; $XONSH_HISTORY_FILE is unset or
\* names the session's file.
InitPull ==
    /\ InitSession({DefaultConfig}, 1)
    /\ histfile \in {NoPath, OwnPath}
    /\ prompter \in BOOLEAN
    /\ dir = NoDir

NextPull ==
    \/ \E c \in {cc \in CmdInputs : cc.inp = "a" /\ cc.rtn = 0} : AppendCmd(c, FALSE)
    \/ \E n \in FlusherIds : FlusherAcquire(n)
    \/ \E n \in FlusherIds : DumpLoad(n)
    \/ \E n \in FlusherIds : DumpWrite(n)
    \/ \E n \in FlusherIds : FlusherPop(n)
    \/ \E f \in Writers, inp \in OtherInputs, late \in BOOLEAN : OtherAppend(f, inp, late)
    \/ \E src \in PullSources : Pull(src)

SpecPull == InitPull /\ [][NextPull]_vars

----------------------------------------------------------------------------
(* The environment: the session file is damaged behind the program's back *)

CorruptFile ==
    /\ file.ok
    /\ file' = [file EXCEPT !.ok = FALSE]
    /\ UNCHANGED <<env, buffer, hlen, skipped, queue, cond, fl, nfl, main, now,
                   ret, raised, appended, edited>>
    /\ UNCHANGED mtime
    /\ UNCHANGED others

----------------------------------------------------------------------------
(* Specifications *)

\* The steps of calls that have begun and of flusher threads.
ThreadNext ==
    \/ DeleteWrite
    \/ ReadAcquire
    \/ ReadFile
    \/ \E n \in FlusherIds : FlusherAcquire(n)
    \/ \E n \in FlusherIds : DumpLoad(n)
    \/ \E n \in FlusherIds : DumpWrite(n)
    \/ \E n \in FlusherIds : FlusherPop(n)

\* The calls the interactive loop makes.
CallNext ==
    \/ \E c \in CmdInputs, ignored \in BOOLEAN : AppendCmd(c, ignored)
    \/ Flush
    \/ FlushAtExit
    \/ Clear
    \/ \E pat \in Patterns : DeleteBegin(pat)
    \/ \E field \in FieldNames, key \in (-MaxCmds)..(MaxCmds - 1) : Read(field, key)

Next == CallNext \/ ThreadNext

Spec == Init /\ [][Next]_vars

NextFault == Next \/ CorruptFile

SpecFault == Init /\ [][NextFault]_vars

\* Every configuration of $HISTCONTROL, $XONSH_STORE_STDOUT and save_cwd, for
\* a session that appends, flushes and reads.
InitOptions == InitWith({c \in Configs : c.metaTs})

NextOptions ==
    \/ \E c \in CmdInputs, ignored \in BOOLEAN : AppendCmd(c, ignored)
    \/ Flush
    \/ FlushAtExit
    \/ \E field \in FieldNames, key \in (-MaxCmds)..(MaxCmds - 1) : Read(field, key)
    \/ ReadAcquire
    \/ ReadFile
    \/ \E n \in FlusherIds : FlusherAcquire(n)
    \/ \E n \in FlusherIds : DumpLoad(n)
    \/ \E n \in FlusherIds : DumpWrite(n)
    \/ \E n \in FlusherIds : FlusherPop(n)

SpecOptions == InitOptions /\ [][NextOptions]_vars

----------------------------------------------------------------------------
(* Properties of the access serializer *)

Created == 1..nfl

\* Flusher n has loaded the document and not yet written it back.
InFileIO(n) == FlPc(n) = "loaded"
\* The field accessor holds the lock at the front, its read not yet done.
ReaderInFileIO == MainIs("rd_io")

\* C1: at most one operation on the session file is inside its I/O on the
\* file at any time, over background flushes, the shutdown flush and the
\* file reads of the field accessors.
C1_MutualExclusion ==
    Cardinality({n \in Created : InFileIO(n)}) + (IF ReaderInFileIO THEN 1 ELSE 0) <= 1

\* C2: operations are serviced in the order they were enqueued (flushers are
\* numbered in that order, and a field accessor is enqueued after every
\* flusher there is): an operation begins its I/O only when every operation
\* enqueued before it has completed its own, and a flusher that dequeues
\* removes its own entry.
C2_SubmissionOrder ==
    [][ /\ \A a, b \in FlusherIds :
              (a < b /\ fl'[b].pc \in {"loaded", "written", "done"})
                  => fl'[a].pc \in {"written", "done", "raised"}
        /\ main'.pc = "rd_io"
              => \A a \in 1..nfl' : fl'[a].pc \in {"written", "done", "raised"}
        /\ \A n \in FlusherIds :
              (fl[n].pc = "written" /\ fl'[n].pc = "done") => Head(queue) = n
      ]_vars

\* Every operation that was enqueued has dequeued.
AllDequeued ==
    /\ \A n \in Created : FlPc(n) = "done"
    /\ main.pc \in {"idle", "exited"}

\* The shutdown flush has been called.
AtExitCalled == main.pc \in {"ae", "exited", "aborted"}

\* C3: no starvation, stated for the background flushes and the field reads
\* of a live session.  While no file I/O has failed, whenever an enqueued
\* operation has not dequeued yet some thread can take a step: under fair
\* scheduling the system never comes to rest with an operation left waiting,
\* whatever order the threads took the condition in.
C3_NoStarvation ==
    \/ raised # {}
    \/ AtExitCalled
    \/ AllDequeued
    \/ ENABLED ThreadNext

\* C4: an operation whose file I/O failed after it was enqueued is no longer
\* in the queue.
C4_DequeueOnFailure ==
    \A i \in 1..Len(queue) : queue[i] \notin raised

----------------------------------------------------------------------------
(* Properties of the session store and the flusher *)

\* C5: the commands of the session file are in append order.
C5_AppendOrder ==
    \A i, j \in 1..Len(file.cmds) : i < j => file.cmds[i].ts < file.cmds[j].ts

Occurrences(s, t) == Cardinality({i \in 1..Len(s) : s[i].ts = t})

\* C6: with no dedup/ignore policy and no clear or delete, once every flush
\* that was started has finished, each accepted command is exactly once in
\* the file or in the buffer.
C6_NoLossNoDup ==
    (AllDequeued /\ env.opts = {} /\ ~edited)
        => \A k \in 1..Len(appended) :
              Occurrences(file.cmds, appended[k].ts)
                  + Occurrences(buffer, appended[k].ts) = 1

\* C7: when flush(at_exit=True) has returned, the session file is finalized:
\* not locked, its end timestamp set.
C7_FinalizedAtExit ==
    MainIs("exited") => (~file.locked /\ file.tsEnd # 0)

\* C8: after clear() has returned (no flush was under way when it was called,
\* and any flush it started has completed), the buffer is empty, the length
\* is zero, and the file holds no command while its metadata is as it was.
C8_ClearResets ==
    (ret.op = "clear" /\ ret.pending = 0 /\ AllDequeued)
        => /\ buffer = <<>>
           /\ HistLen = 0
           /\ file.cmds = <<>>
           /\ file.hasTs = env.metaTs

\* C9: after delete(pattern) has returned (no flush was under way when it
\* was called), no record whose input matches is left in the buffer or in the
\* file, and the count returned is the number of matching records there were
\* before the call.
C9_DeleteRemovesAll ==
    (ret.op = "delete" /\ ret.pending = 0)
        => /\ NumMatching(buffer, ret.pat) = 0
           /\ file.ok => NumMatching(file.cmds, ret.pat) = 0
           /\ ret.count = ret.pre

----------------------------------------------------------------------------
(* Properties of the field accessors *)

\* The value a read of field at index k is to return if flushing changes
\* nothing: that of the k-th command append accepted.
Reference(field, k) == FieldGet(appended[k + 1], field)

\* Every index the accessor serves from the buffer returns the value of the
\* command appended at that index.
BufferReadsAppended ==
    MainIs("idle")
        => \A field \in FieldNames, k \in 0..(HistLen - 1) :
              InBuffer(k) => BufferValue(field, k) = Reference(field, k)

\* C10 as stated: for every field, every index and every configuration, the
\* value read at an index from the file, once the entry is flushed, is the
\* value read at that index while the entry was in the buffer.
C10_BoundaryAnyConfig ==
    /\ BufferReadsAppended
    /\ MainIs("rd_io")
          => /\ FileReadable(main.key)
             /\ FileValue(main.field, main.key) = Reference(main.field, main.key)

\* C10 amended: with neither ignoredups nor ignoreerr configured and no
\* clear or delete, a read at an index returns the same value from the file
\* as it did from the buffer for inp, ts, rtn and cwd, and for out when
\* output is stored; when output is not stored, out reads as the default
\* once the entry is flushed.
C10_BoundaryEquivalence ==
    (env.opts = {} /\ ~edited)
        => /\ BufferReadsAppended
           /\ MainIs("rd_io")
                 => /\ FileReadable(main.key)
                    /\ FileValue(main.field, main.key)
                          = IF main.field = "out" /\ ~env.storeStdout
                            THEN None
                            ELSE Reference(main.field, main.key)

\* A read of a flushed entry that had captured output is about to return,
\* with two commands in the file.
C10_Witness ==
    /\ MainIs("rd_io")
    /\ env.opts = {}
    /\ Len(file.cmds) >= 2
    /\ FileReadable(main.key)
    /\ main.key = 1
    /\ main.field \in {"inp", "out"}
    /\ appended[2].out

----------------------------------------------------------------------------
(* Properties of the retention policies and of a collection *)

\* The policy has run: gc.files is the sorted list it was given, gc.rm the
\* files it marked, gc.sizeOver the amount over the limit it reported.
Decided == gc.pc \in {"remove", "done"}

\* The files of the list the policy did not mark.
Kept == SubSeq(gc.files, Len(gc.rm) + 1, Len(gc.files))

PathsOf(files) == {files[i][3] : i \in 1..Len(files)}

\* The component of a file tuple the policy of these units accumulates.
Metric(units) == IF units = "commands" THEN 2 ELSE 4

\* C11: for each of the four policies, every limit and every sorted list,
\* the files marked for removal are a prefix of the list: no file is marked
\* while an older one is kept.
C11_RemovedIsPrefix ==
    Decided
        => /\ Len(gc.rm) <= Len(gc.files)
           /\ \A i \in 1..Len(gc.rm) : gc.rm[i] = gc.files[i]

\* The file-count policy has marked some files and kept others.
C11_Witness ==
    /\ Decided
    /\ gc.units = "files"
    /\ gc.rm # <<>>
    /\ Len(gc.rm) < Len(gc.files)

\* C12: for the command-count and byte-size policies, whenever a file is
\* marked, the metric summed over the kept files is at most the limit and
\* the amount reported over the limit is the metric summed over the marked
\* files.
C12_KeptWithinLimit ==
    (Decided /\ gc.units \in {"commands", "b"} /\ gc.rm # <<>>)
        => /\ SumOf(Kept, Metric(gc.units)) <= gc.hsize
           /\ gc.sizeOver = SumOf(gc.rm, Metric(gc.units))

\* The byte-size policy has marked a file and kept two.
C12_Witness ==
    /\ Decided
    /\ gc.units = "b"
    /\ gc.rm # <<>>
    /\ Len(Kept) >= 2

\* The oldest files of the list, all but the newest min(limit, count).
OldestOver(files, limit) ==
    PathsOf(SubSeq(files, 1, Len(files) - Min(limit, Len(files))))

C14_SafetyGuard ==
    (gc.removed # {} \/ \E f \in Paths : dir[f].kind = "absent")
        => (gc.force \/ gc.sizeOver < gc.hsize)

\* A collection not forced has ended with a warning: the amount over the
\* limit equals the limit, files were marked, none is deleted.
C14_Witness ==
    /\ gc.pc = "done"
    /\ ~gc.force
    /\ gc.sizeOver = gc.hsize
    /\ gc.rm # <<>>
    /\ gc.warned
    /\ \A f \in Paths : dir[f].kind # "absent"

\* The file was locked by a live session when the collection listed it.
LiveWhenSeen(f) ==
    /\ gc.seen[f].kind = "json"
    /\ gc.seen[f].locked
    /\ gc.seen[f].ts0 >= Boot

\* C15: a file that, when listed, is locked with a start time not earlier
\* than the last boot is not a candidate, and is neither rewritten nor
\* removed by the collection, for every policy and also when forced.
C15_LiveSessionKept ==
    \A f \in Paths :
        LiveWhenSeen(f)
            => /\ f \notin PathsOf(gc.files)
               /\ f \notin PathsOf(gc.rm)
               /\ dir[f] = gc.seen[f]

\* A forced collection has removed a file and left the file of a session
\* that started at the very time of the boot.
C15_Witness ==
    /\ gc.pc = "done"
    /\ gc.force
    /\ gc.removed # {}
    /\ \E f \in Paths : LiveWhenSeen(f) /\ gc.seen[f].ts0 = Boot

\* C19: for the command-count and byte-size policies, when the metric of
\* the newest file alone exceeds the limit, no file is marked and the
\* amount reported over the limit is 0.
C19_NewestAloneOverLimit ==
    (/\ Decided
     /\ gc.units \in {"commands", "b"}
     /\ gc.files # <<>>
     /\ gc.files[Len(gc.files)][Metric(gc.units)] > gc.hsize)
        => (gc.rm = <<>> /\ gc.sizeOver = 0)

\* The command-count policy was given three files, the newest of which
\* alone exceeds the limit.
C19_Witness ==
    /\ Decided
    /\ gc.units = "commands"
    /\ Len(gc.files) = 3
    /\ gc.files[3][2] > gc.hsize
    /\ gc.rm = <<>>

\* The file was locked, with a start time before the last boot, when the
\* collection listed it.
StaleWhenSeen(f) ==
    /\ gc.seen[f].kind = "json"
    /\ gc.seen[f].locked
    /\ gc.seen[f].ts0 < Boot

\* C20: a non-empty readable file that is locked with a start time before
\* the last boot is rewritten with locked false and the same commands and
\* metadata when it is listed, and is then among the candidates like an
\* unlocked file.
C20_CrashLockReconciled ==
    \A f \in Paths :
        StaleWhenSeen(f)
            => /\ \E i \in 1..Len(gc.files) :
                     /\ gc.files[i][3] = f
                     /\ gc.files[i][1] = gc.seen[f].ts0
                     /\ gc.files[i][2] = Len(gc.seen[f].cmds)
               /\ \/ f \in gc.removed
                  \/ /\ ~dir[f].locked
                     /\ dir[f].kind = "json"
                     /\ dir[f].cmds = gc.seen[f].cmds
                     /\ dir[f].ts0 = gc.seen[f].ts0
                     /\ dir[f].ts1 = gc.seen[f].ts1

\* A collection has ended with the file of a dead session, of two commands,
\* unlocked and kept.
C20_Witness ==
    /\ gc.pc = "done"
    /\ \E f \in Paths :
          /\ StaleWhenSeen(f)
          /\ Len(gc.seen[f].cmds) = 2
          /\ f \notin gc.removed
          /\ ~dir[f].locked

----------------------------------------------------------------------------
(* Properties of pull *)

\* The step is a pull that went through to its end.
PullDone == pulled'.at # pulled.at /\ pulled'.op = "pull"

\* The cursor of a source: its own if it has one, else that of the last
\* full pull.
CursorOf(times, f) == IF <<f>> \in DOMAIN times THEN times[<<f>>] ELSE times[None]

AllPaths == Paths \cup {OwnPath}

\* The files a pull of src reads commands from: the file of src, or every
\* file modified after the last full pull; but for the path of the current
\* session ($XONSH_HISTORY_FILE) and for files that are not valid JSON.
Candidates(src) ==
    {f \in AllPaths :
        /\ IF src # None THEN f = src[1]
           ELSE (f = OwnPath \/ dir[f].kind # "absent")
                /\ MtimeAt(f) > pullTimes[None]
        /\ f # histfile
        /\ Readable(f)}

\* Command j of file f and every command after it ended after the cursor
\* of f.
InTrailingRun(f, j) ==
    \A k \in j..Len(CmdsAt(f)) : CmdsAt(f)[k].ts > CursorOf(pullTimes, f)

\* The positions of the candidate files that hold record r in their
\* trailing run.
RunPositions(src, r) ==
    UNION { { <<f, j>> : j \in {i \in 1..Len(CmdsAt(f)) :
                                   InTrailingRun(f, i) /\ CmdsAt(f)[i] = r} }
            : f \in Candidates(src) }

AllRecords == UNION { {CmdsAt(f)[j] : j \in 1..Len(CmdsAt(f))} : f \in AllPaths }

\* C16: a pull collects, from each candidate file, exactly the commands of
\* the maximal trailing run that ended strictly after the cursor of that
\* source (its own cursor, else that of the last full pull), and returns the
\* commands of all candidate files in ascending order of end timestamp.
C16_TrailingRunsSorted ==
    [][ PullDone =>
          LET items == pulled'.items IN
          /\ \A i, j \in 1..Len(items) : i < j => items[i].ts <= items[j].ts
          /\ \A r \in AllRecords \cup {items[i] : i \in 1..Len(items)} :
                Cardinality({i \in 1..Len(items) : items[i] = r})
                    = Cardinality(RunPositions(pulled'.src, r))
      ]_vars

\* A full pull has just collected the second command of file 1, whose first
\* command ended at the cursor, and a command of file 2.
C16_Witness ==
    /\ pulled.op = "pull"
    /\ pulled.src = None
    /\ pulled.at = now - 1
    /\ Len(dir[1].cmds) = 2
    /\ dir[1].cmds[1].ts <= pulled.before[None]
    /\ dir[1].cmds[2].ts > pulled.before[None]
    /\ Len(dir[2].cmds) = 1
    /\ Len(pulled.items) = 2
    /\ pulled.items[1] = dir[2].cmds[1]
    /\ pulled.items[2] = dir[1].cmds[2]
    /\ pulled.items[1].ts < pulled.items[2].ts

\* C17: after a pull with no source the cursor map is the one entry of the
\* sentinel with the time of the pull; after a pull of one source only the
\* cursor of that source is set, to the time of the pull, every other entry
\* unchanged; and the cursor of every source never decreases.
C17_CursorUpdate ==
    [][ /\ PullDone =>
              IF pulled'.src = None
              THEN pullTimes' = [k \in {None} |-> now]
              ELSE /\ DOMAIN pullTimes' = DOMAIN pullTimes \cup {pulled'.src}
                   /\ pullTimes'[pulled'.src] = now
                   /\ \A k \in DOMAIN pullTimes \ {pulled'.src} :
                         pullTimes'[k] = pullTimes[k]
        /\ \A f \in AllPaths : CursorOf(pullTimes', f) >= CursorOf(pullTimes, f)
      ]_vars

\* A full pull has been made after a pull of a single source: the cursor
\* of that source was dropped, the sentinel alone is left.
C17_Witness ==
    /\ pulled.op = "pull"
    /\ pulled.src = None
    /\ Cardinality(DOMAIN pulled.before) = 2
    /\ DOMAIN pullTimes = {None}
    /\ pullTimes[None] = pulled.at

\* C18: a full pull collects no command from the session's own file.
C18_OwnFileExcluded ==
    (pulled.op = "pull" /\ pulled.src = None) => pulled.fromOwn = 0

\* C23: over any sequence of full and single-source pulls, no command of
\* another session's file is collected more than once (every command ends
\* no later than the time it is written to its file).
C23_NoDoubleImport == selected.again = {}

\* A full pull has read a file again from which a pull of that single
\* source had already collected a command.
C23_Witness ==
    /\ pulled.op = "pull"
    /\ pulled.src = None
    /\ \E f \in Paths :
          /\ <<f>> \in DOMAIN pulled.before
          /\ dir[f].mtime > pulled.before[None]
          /\ \E j \in 1..Len(dir[f].cmds) : <<f, j>> \in selected.once

\* time.time() when the session was constructed.
StartTime == 1

\* C24: every command another session ran after this session started and
\* has written to its file is collected by the first full pull made after
\* it was written: after a full pull no such command of any other file is
\* left that no pull has collected.
C24_NoMissedImport ==
    [][ (PullDone /\ pulled'.src = None) =>
          \A f \in Paths : \A j \in 1..Len(dir[f].cmds) :
              dir[f].cmds[j].ts > StartTime => <<f, j>> \in selected'.once
      ]_vars

----------------------------------------------------------------------------
(* Properties of the session under $HISTCONTROL, and of its length *)

\* C21: with ignoredups configured, a record is dropped when its input
\* equals that of the record kept before it, also when that one was written
\* by an earlier flush: the session file never holds two adjacent records
\* with equal input (stated for the background flushes of a live session).
C21_NoAdjacentDuplicates ==
    ("ignoredups" \in env.opts /\ ~AtExitCalled)
        => \A i \in 1..(Len(file.cmds) - 1) :
              file.cmds[i].inp # file.cmds[i + 1].inp

\* C22: whenever no flush is in flight and no call under way, the length
\* of the history is not negative and is the number of records of the
\* session file plus the number of records of the buffer.
C22_LengthConsistent ==
    (MainIs("idle") /\ \A n \in Created : FlPc(n) = "done")
        => /\ HistLen >= 0
           /\ HistLen = Len(file.cmds) + Len(buffer)

====
